---- MODULE Spec2Model ----
(***************************************************************************)
(* Timer state machine over a record tree (recorder screen) and the        *)
(* AsyncStorage-backed record repository it persists to.                   *)
(*                                                                         *)
(* Records are nested: a record carries the sequence of its child records, *)
(* exactly as the TimeRecord objects of the source.  Wall-clock time is in *)
(* milliseconds; every handler reads Date.now() once when it runs.         *)
(*                                                                         *)
(* The clock is observed on a half-second grid.  A press (toggle, add,     *)
(* new recorder) comes at least one grid step after the previous event, so *)
(* two records are never created in the same millisecond here; a frame or  *)
(* an effect may run in the same instant as the event before it.           *)
(* avatarColor, isEditing and isEditingNote are display-only members and   *)
(* are left out of the records.                                            *)
(***************************************************************************)
EXTENDS Integers, Sequences, FiniteSets, TLC

VARIABLES
    now,          \* the last value returned by Date.now()
    screen,       \* "home" or "recorder": the mounted screen
    routeId,      \* id route parameter of the recorder screen
    loaded,       \* recorder screen: initializeRecord has run
    timeRecords,  \* recorder screen state: sequence holding the open root record
    rootRecords,  \* list screen state: the stored records as last loaded
    storage,      \* AsyncStorage: function from keys to stored values
    last,         \* the last command and the tree it was applied to
    leftRunning,  \* the record last started by a toggle, while no toggle has changed it
    calls         \* the storage calls in flight, each with its position and locals

vars == <<now, screen, routeId, loaded, timeRecords, rootRecords, storage, last, leftRunning,
          calls>>

----------------------------------------------------------------------------
(* Bounds of the model *)

MaxNow == 4500       \* the clock stops advancing here
MaxNodes == 4        \* records in the forest, stored or on screen
MaxRoots == 1        \* root records in the store
MaxEdits == 1        \* collapsed flags, typed titles and typed notes in the open tree
MaxEditNodes == 3    \* records of the tree that is edited
MaxListed == 2       \* root records where several recorders are listed
MaxInFlight == 2     \* storage calls in flight at the same time
MaxBurst == 3        \* storage calls begun before the store is idle again

(* Program constants *)

MsPerSecond == 1000
RECORDS_PREFIX == "time_record_"
RECORDS_INDEX_KEY == "time_records_index"

(* Values of the modelled JavaScript heap *)

Undefined == -1      \* an absent or undefined number (startTime)
Null == "null"       \* parentId of a root record
StartOfTime == MsPerSecond   \* Date.now() when the application is first started
Step == MsPerSecond \div 2  \* the clock is observed on a half-second grid
PressDelays == {Step}      \* a press comes after the previous event
EffectDelays == {0, Step}  \* a frame or an effect may run at once
QueuedDelays == {0, Step}  \* a press queued behind another is handled at once
MissingId == "0"     \* an id that no record carries

Truthy(x) == x # Undefined /\ x # 0
OrZero(x) == IF Truthy(x) THEN x ELSE 0
OrElse(x, y) == IF Truthy(x) THEN x ELSE y

Times(delays) == {now + d : d \in {e \in delays : now + e <= MaxNow}}

elapsedSeconds(t, startTime) == (t - startTime) \div MsPerSecond

----------------------------------------------------------------------------
(* Walking a record tree *)

RECURSIVE CountRecords(_)
CountRecords(records) ==
    IF records = <<>> THEN 0
    ELSE 1 + CountRecords(Head(records).children) + CountRecords(Tail(records))

RECURSIVE Paths(_)
\* A path is the sequence of positions leading from the top-level list to a record.
Paths(records) ==
    UNION {{<<i>>} \cup {<<i>> \o p : p \in Paths(records[i].children)}
           : i \in DOMAIN records}

RECURSIVE NodeAt(_, _)
NodeAt(records, p) ==
    IF Len(p) = 1 THEN records[p[1]]
    ELSE NodeAt(records[p[1]].children, Tail(p))

Parent(p) == SubSeq(p, 1, Len(p) - 1)
IsPrefix(p, q) == Len(p) <= Len(q) /\ SubSeq(q, 1, Len(p)) = p
StrictAncestor(p, q) == IsPrefix(p, q) /\ Len(p) < Len(q)
Siblings(p, q) == p # q /\ Len(p) = Len(q) /\ Parent(p) = Parent(q)

Ids(records) == {NodeAt(records, p).id : p \in Paths(records)}

----------------------------------------------------------------------------
(* toggleRecord *)

\* a variant that reaches the direct children only
updateChildrenStatusShallow(records, status) ==
    [i \in DOMAIN records |-> [records[i] EXCEPT !.isRunning = status]]

RECURSIVE updateChildrenStatus(_, _)
updateChildrenStatus(records, status) ==
    [i \in DOMAIN records |->
        [records[i] EXCEPT !.isRunning = status,
                           !.children = updateChildrenStatus(@, status)]]

RECURSIVE findRecordById(_, _)
\* <<record>> for the first record found in depth-first order, <<>> for null
findRecordById(records, targetId) ==
    IF records = <<>> THEN <<>>
    ELSE LET record == Head(records) IN
         IF record.id = targetId THEN <<record>>
         ELSE LET found == IF Len(record.children) > 0
                           THEN findRecordById(record.children, targetId)
                           ELSE <<>> IN
              IF found # <<>> THEN found
              ELSE findRecordById(Tail(records), targetId)

\* a variant that starts the record without opening an interval
startTargetNoStartTime(record, t) ==
    [record EXCEPT !.isRunning = TRUE,
                   !.baseTime = OrZero(record.time)]

\* a variant that starts the children along with the record
startTargetWithChildren(record, t) ==
    [record EXCEPT !.isRunning = TRUE,
                   !.startTime = t,
                   !.baseTime = OrZero(record.time),
                   !.children = updateChildrenStatus(record.children, TRUE)]

\* the record whose id is recordId, going from stopped to running
startTarget(record, t) ==
    [record EXCEPT !.isRunning = TRUE,
                   !.startTime = t,
                   !.baseTime = OrZero(record.time)]

\* a variant that stops the record without crediting the open interval
stopTargetNoCredit(record, t) ==
    [record EXCEPT !.isRunning = FALSE,
                   !.children = updateChildrenStatus(record.children, FALSE),
                   !.baseTime = OrZero(record.baseTime),
                   !.startTime = Undefined,
                   !.time = OrZero(record.baseTime)]

\* the record whose id is recordId, going from running to stopped
stopTarget(record, t) ==
    LET elapsed == elapsedSeconds(t, OrElse(record.startTime, t))
        baseTime == OrZero(record.baseTime) + elapsed IN
    [record EXCEPT !.isRunning = FALSE,
                   !.children = updateChildrenStatus(record.children, FALSE),
                   !.baseTime = baseTime,
                   !.startTime = Undefined,
                   !.time = baseTime]

\* another record of the level the target is in
pauseSibling(record) ==
    [record EXCEPT !.isRunning = FALSE,
                   !.startTime = Undefined,
                   !.time = OrZero(record.baseTime),
                   !.children = updateChildrenStatus(record.children, FALSE)]

\* a variant that leaves the running flag of the ancestor as it was
followTargetKeepsStatus(record, targetChild, updatedChildren, t) ==
    [record EXCEPT !.startTime = IF targetChild.isRunning THEN t ELSE Undefined,
                   !.baseTime = OrZero(record.time),
                   !.children = updatedChildren]

\* a record with the target somewhere below it
followTarget(record, targetChild, updatedChildren, t) ==
    [record EXCEPT !.isRunning = targetChild.isRunning,
                   !.startTime = IF targetChild.isRunning THEN t ELSE Undefined,
                   !.baseTime = OrZero(record.time),
                   !.children = updatedChildren]

RECURSIVE updateRecordStatusPauseOthers(_, _, _)
\* a variant that pauses every record that is neither the target nor above it
updateRecordStatusPauseOthers(records, recordId, t) ==
    [i \in DOMAIN records |->
        LET record == records[i] IN
        IF record.id = recordId THEN
            IF ~record.isRunning THEN startTarget(record, t)
            ELSE stopTarget(record, t)
        ELSE LET updatedChildren ==
                     updateRecordStatusPauseOthers(record.children, recordId, t)
                 targetChild == findRecordById(updatedChildren, recordId) IN
             IF targetChild # <<>>
             THEN followTarget(record, targetChild[1], updatedChildren, t)
             ELSE pauseSibling(record)]

RECURSIVE updateRecordStatus(_, _, _)
updateRecordStatus(records, recordId, t) ==
    LET hasTargetInLevel == \E i \in DOMAIN records : records[i].id = recordId IN
    [i \in DOMAIN records |->
        LET record == records[i] IN
        IF record.id = recordId THEN
            IF ~record.isRunning THEN startTarget(record, t)
            ELSE stopTarget(record, t)
        ELSE IF hasTargetInLevel THEN pauseSibling(record)
        ELSE IF Len(record.children) > 0 THEN
            LET updatedChildren == updateRecordStatus(record.children, recordId, t)
                targetChild == findRecordById(updatedChildren, recordId) IN
            IF targetChild # <<>>
            THEN followTarget(record, targetChild[1], updatedChildren, t)
            ELSE [record EXCEPT !.children = updatedChildren]
        ELSE record]

----------------------------------------------------------------------------
(* Display tick and the reload of a persisted tree *)

RECURSIVE updateRecordTimeRebase(_, _)
\* a variant that folds the elapsed seconds into baseTime on every frame
updateRecordTimeRebase(record, t) ==
    IF record.isRunning /\ Truthy(record.startTime)
    THEN [record EXCEPT !.time = record.baseTime + elapsedSeconds(t, record.startTime),
                        !.baseTime = record.baseTime + elapsedSeconds(t, record.startTime),
                        !.startTime = t,
                        !.children = [i \in DOMAIN @ |-> updateRecordTimeRebase(@[i], t)]]
    ELSE [record EXCEPT !.children = [i \in DOMAIN @ |-> updateRecordTimeRebase(@[i], t)]]

RECURSIVE updateRecordTime(_, _)
updateRecordTime(record, t) ==
    IF record.isRunning /\ Truthy(record.startTime)
    THEN [record EXCEPT !.time = record.baseTime + elapsedSeconds(t, record.startTime),
                        !.children = [i \in DOMAIN @ |-> updateRecordTime(@[i], t)]]
    ELSE [record EXCEPT !.children = [i \in DOMAIN @ |-> updateRecordTime(@[i], t)]]

RECURSIVE updateElapsedTimeRebase(_, _)
\* a variant that folds the elapsed seconds into baseTime and restarts the interval
updateElapsedTimeRebase(record, t) ==
    IF record.isRunning /\ Truthy(record.startTime)
    THEN [record EXCEPT !.time = record.baseTime + elapsedSeconds(t, record.startTime),
                        !.baseTime = record.baseTime + elapsedSeconds(t, record.startTime),
                        !.startTime = t,
                        !.children = [i \in DOMAIN @ |-> updateElapsedTimeRebase(@[i], t)]]
    ELSE [record EXCEPT !.children = [i \in DOMAIN @ |-> updateElapsedTimeRebase(@[i], t)]]

RECURSIVE updateElapsedTime(_, _)
updateElapsedTime(record, t) ==
    IF record.isRunning /\ Truthy(record.startTime)
    THEN [record EXCEPT !.time = record.baseTime + elapsedSeconds(t, record.startTime),
                        !.children = [i \in DOMAIN @ |-> updateElapsedTime(@[i], t)]]
    ELSE [record EXCEPT !.children = [i \in DOMAIN @ |-> updateElapsedTime(@[i], t)]]

\* the list screen's view of a stored root record
homeUpdateElapsedTime(record, t) ==
    IF record.isRunning /\ Truthy(record.startTime)
    THEN [record EXCEPT !.time = OrZero(record.baseTime) + elapsedSeconds(t, record.startTime),
                        !.baseTime = OrZero(record.baseTime) + elapsedSeconds(t, record.startTime),
                        !.startTime = t]
    ELSE record

----------------------------------------------------------------------------
(* addNewRecord and the break button *)

NoNote == "undefined"

\* a variant that leaves the new record without a parent
newChildRecordDetached(newId, parentId, label, t) ==
    [id |-> newId, time |-> 0, baseTime |-> 0, isRunning |-> FALSE,
     startTime |-> Undefined, label |-> label, note |-> "", children |-> <<>>,
     parentId |-> Null, isCollapsed |-> FALSE, createdAt |-> <<"Date", t>>]

newChildRecord(newId, parentId, label, t) ==
    [id |-> newId, time |-> 0, baseTime |-> 0, isRunning |-> FALSE,
     startTime |-> Undefined, label |-> label, note |-> "", children |-> <<>>,
     parentId |-> parentId, isCollapsed |-> FALSE, createdAt |-> <<"Date", t>>]

newRootRecord(newId, t) ==
    [id |-> newId, time |-> 0, baseTime |-> 0, isRunning |-> FALSE,
     startTime |-> Undefined, label |-> "Todo...", note |-> NoNote, children |-> <<>>,
     parentId |-> Null, isCollapsed |-> FALSE, createdAt |-> <<"Date", t>>]

RECURSIVE updateRecordTree(_, _, _)
updateRecordTree(records, parentId, newRecord) ==
    [i \in DOMAIN records |->
        LET record == records[i] IN
        IF record.id = parentId
        THEN [record EXCEPT !.children = Append(@, newRecord)]
        ELSE [record EXCEPT !.children = updateRecordTree(@, parentId, newRecord)]]

----------------------------------------------------------------------------
(* Collapse, rename and annotate *)

RECURSIVE updateCollapse(_, _)
updateCollapse(records, recordId) ==
    [i \in DOMAIN records |->
        LET record == records[i] IN
        IF record.id = recordId
        THEN [record EXCEPT !.isCollapsed = ~record.isCollapsed]
        ELSE [record EXCEPT !.children = updateCollapse(@, recordId)]]

RECURSIVE updateLabelResetTime(_, _, _)
\* a variant that clears the displayed time of the renamed record
updateLabelResetTime(records, recordId, newLabel) ==
    [i \in DOMAIN records |->
        LET record == records[i] IN
        IF record.id = recordId
        THEN [record EXCEPT !.label = newLabel, !.time = 0]
        ELSE [record EXCEPT !.children = updateLabelResetTime(@, recordId, newLabel)]]

RECURSIVE updateLabel(_, _, _)
updateLabel(records, recordId, newLabel) ==
    [i \in DOMAIN records |->
        LET record == records[i] IN
        IF record.id = recordId
        THEN [record EXCEPT !.label = newLabel]
        ELSE [record EXCEPT !.children = updateLabel(@, recordId, newLabel)]]

RECURSIVE updateNote(_, _, _)
updateNote(records, recordId, text) ==
    [i \in DOMAIN records |->
        LET record == records[i] IN
        IF record.id = recordId
        THEN [record EXCEPT !.note = text]
        ELSE [record EXCEPT !.children = updateNote(@, recordId, text)]]

\* what the user types into the title and the note input
TypedLabels == {"Work"}
TypedNotes == {"memo"}

RECURSIVE Edited(_)
\* the collapsed flags, typed titles and typed notes of a tree
Edited(records) ==
    IF records = <<>> THEN 0
    ELSE LET record == Head(records) IN
         (IF record.isCollapsed THEN 1 ELSE 0)
         + (IF record.label \in TypedLabels THEN 1 ELSE 0)
         + (IF record.note \in TypedNotes THEN 1 ELSE 0)
         + Edited(record.children) + Edited(Tail(records))

----------------------------------------------------------------------------
(* JsonStorageProvider over AsyncStorage *)

getItem(s, key) == IF key \in DOMAIN s THEN <<s[key]>> ELSE <<>>
setItem(s, key, value) ==
    [k \in DOMAIN s \cup {key} |-> IF k = key THEN value ELSE s[k]]
removeItem(s, key) == [k \in DOMAIN s \ {key} |-> s[k]]

recordKey(id) == RECORDS_PREFIX \o id

RECURSIVE stringify(_)
\* JSON.stringify with the createdAt replacer: undefined members are dropped
stringify(record) ==
    LET dropped == (IF record.startTime = Undefined THEN {"startTime"} ELSE {})
                   \cup (IF record.note = NoNote THEN {"note"} ELSE {}) IN
    [f \in DOMAIN record \ dropped |->
        IF f = "createdAt" THEN <<"ISO", record.createdAt[2]>>
        ELSE IF f = "children"
             THEN [i \in DOMAIN record.children |-> stringify(record.children[i])]
        ELSE record[f]]

RECURSIVE parseNoReviver(_)
\* a variant without the reviver: createdAt stays the ISO string
parseNoReviver(json) ==
    [f \in DOMAIN json \cup {"startTime", "note"} |->
        IF f \notin DOMAIN json THEN (IF f = "note" THEN NoNote ELSE Undefined)
        ELSE IF f = "children"
             THEN [i \in DOMAIN json.children |-> parseNoReviver(json.children[i])]
        ELSE json[f]]

RECURSIVE parse(_)
\* JSON.parse with the createdAt reviver; a missing member reads as undefined
parse(json) ==
    [f \in DOMAIN json \cup {"startTime", "note"} |->
        IF f \notin DOMAIN json THEN (IF f = "note" THEN NoNote ELSE Undefined)
        ELSE IF f = "createdAt" THEN <<"Date", json.createdAt[2]>>
        ELSE IF f = "children"
             THEN [i \in DOMAIN json.children |-> parse(json.children[i])]
        ELSE json[f]]

\* a variant that writes an empty index whether or not one exists
initializeAlways(s) == setItem(s, RECORDS_INDEX_KEY, <<>>)

\* run to completion when the storage module is loaded
initialize(s) ==
    LET indexExists == getItem(s, RECORDS_INDEX_KEY) IN
    IF indexExists = <<>> THEN setItem(s, RECORDS_INDEX_KEY, <<>>) ELSE s

getRecordIds(s) ==
    LET jsonValue == getItem(s, RECORDS_INDEX_KEY) IN
    IF jsonValue # <<>> THEN jsonValue[1] ELSE <<>>

updateRecordIndex(s, id) ==
    LET recordIds == getRecordIds(s) IN
    IF \A i \in DOMAIN recordIds : recordIds[i] # id
    THEN setItem(s, RECORDS_INDEX_KEY, Append(recordIds, id))
    ELSE s

saveRecord(s, record) ==
    updateRecordIndex(setItem(s, recordKey(record.id), stringify(record)), record.id)

RECURSIVE saveRecords(_, _)
saveRecords(s, records) ==
    IF records = <<>> THEN s
    ELSE saveRecords(saveRecord(s, Head(records)), Tail(records))

deleteRecord(s, id) ==
    LET removed == removeItem(s, recordKey(id))
        recordIds == getRecordIds(removed)
        updatedIds == SelectSeq(recordIds, LAMBDA recordId : recordId # id) IN
    setItem(removed, RECORDS_INDEX_KEY, updatedIds)

\* A call during which AsyncStorage rejects one write: the first or the second
\* write the call issues.  The rejection is caught and logged by the provider.
NoFault == "none"
Faults == {NoFault, "first write", "second write"}

updateRecordIndexOrFail(s, id, fault) ==
    LET recordIds == getRecordIds(s) IN
    IF \A i \in DOMAIN recordIds : recordIds[i] # id
    THEN IF fault = "second write" THEN s
         ELSE setItem(s, RECORDS_INDEX_KEY, Append(recordIds, id))
    ELSE s

saveRecordOrFail(s, record, fault) ==
    IF fault = "first write" THEN s
    ELSE updateRecordIndexOrFail(setItem(s, recordKey(record.id), stringify(record)),
                                 record.id, fault)

\* a variant that rewrites the index from nothing
deleteRecordOrFailEmptiesIndex(s, id, fault) ==
    IF fault = "first write" THEN s
    ELSE LET removed == removeItem(s, recordKey(id)) IN
         IF fault = "second write" THEN removed
         ELSE setItem(removed, RECORDS_INDEX_KEY, <<>>)

deleteRecordOrFail(s, id, fault) ==
    IF fault = "first write" THEN s
    ELSE LET removed == removeItem(s, recordKey(id))
             recordIds == getRecordIds(removed)
             updatedIds == SelectSeq(recordIds, LAMBDA recordId : recordId # id) IN
         IF fault = "second write" THEN removed
         ELSE setItem(removed, RECORDS_INDEX_KEY, updatedIds)

\* the position in the call of the write that is rejected, 0 for none
FaultIndex(fault) ==
    CASE fault = "first write" -> 1
      [] fault = "second write" -> 2
      [] OTHER -> 0

\* the keys clearAllData removes: the record keys of the indexed ids, then the index
clearedKeys(s) ==
    [i \in 1..Len(getRecordIds(s)) |-> recordKey(getRecordIds(s)[i])]
        \o <<RECORDS_INDEX_KEY>>

\* Promise.all over removeItem: every removal is issued; one of them may be rejected
clearAllDataOrFail(s, fault) ==
    LET keys == clearedKeys(s)
        removed == {keys[i] : i \in DOMAIN keys \ {FaultIndex(fault)}} IN
    [k \in DOMAIN s \ removed |-> s[k]]

clearAllData(s) == clearAllDataOrFail(s, NoFault)

RECURSIVE saveRecordsOrFail(_, _, _)
\* saveRecords with the n-th write of the whole call rejected (0 for none): each
\* saveRecord catches its own rejection and the loop goes on
saveRecordsOrFail(s, records, n) ==
    IF records = <<>> THEN s
    ELSE LET record == Head(records)
             indexed == \E i \in DOMAIN getRecordIds(s) : getRecordIds(s)[i] = record.id
             writes == IF n = 1 \/ indexed THEN 1 ELSE 2
             fault == IF n = 1 THEN "first write"
                      ELSE IF n = 2 /\ ~indexed THEN "second write"
                      ELSE NoFault
             rest == IF n <= writes THEN 0 ELSE n - writes IN
         saveRecordsOrFail(saveRecordOrFail(s, record, fault), Tail(records), rest)

RECURSIVE rejected(_, _, _)
\* the n-th write of saveRecords(records) is issued, and so rejected
rejected(s, records, n) ==
    IF n = 0 \/ records = <<>> THEN FALSE
    ELSE LET record == Head(records)
             indexed == \E i \in DOMAIN getRecordIds(s) : getRecordIds(s)[i] = record.id
             writes == IF n = 1 \/ indexed THEN 1 ELSE 2 IN
         \/ n <= writes
         \/ rejected(saveRecord(s, record), Tail(records), n - writes)

\* how the promise of a provider method other than initialize settles: the method
\* body is wrapped in try/catch, the catch logs the error and returns
settled(failed) == "resolved"

\* a variant that makes up a record when no value is stored
getRecordSynthetic(s, id) ==
    LET jsonValue == getItem(s, recordKey(id)) IN
    IF jsonValue # <<>> THEN <<parse(jsonValue[1])>>
    ELSE <<newRootRecord(id, StartOfTime)>>

\* <<record>> for a stored record, <<>> for null
getRecord(s, id) ==
    LET jsonValue == getItem(s, recordKey(id)) IN
    IF jsonValue # <<>> THEN <<parse(jsonValue[1])>> ELSE <<>>

RECURSIVE loadEachUntilMissing(_, _)
\* a variant that gives up at the first id without a value
loadEachUntilMissing(s, recordIds) ==
    IF recordIds = <<>> \/ getRecord(s, Head(recordIds)) = <<>> THEN <<>>
    ELSE getRecord(s, Head(recordIds)) \o loadEachUntilMissing(s, Tail(recordIds))

RECURSIVE loadEach(_, _)
loadEach(s, recordIds) ==
    IF recordIds = <<>> THEN <<>>
    ELSE getRecord(s, Head(recordIds)) \o loadEach(s, Tail(recordIds))

getAllRecords(s) == loadEach(s, getRecordIds(s))

getRootRecords(s) ==
    SelectSeq(getAllRecords(s), LAMBDA record : record.parentId = Null)

\* a variant that lists the stored records without filtering
getChildRecordsUnfiltered(s, parentId) == getAllRecords(s)

getChildRecords(s, parentId) ==
    SelectSeq(getAllRecords(s), LAMBDA record : record.parentId = parentId)

----------------------------------------------------------------------------
(* List screen (Home) *)

\* the comparator of loadSavedRecords: running first, then newest first
sortsBefore(a, b) ==
    IF a.isRunning /\ ~b.isRunning THEN TRUE
    ELSE IF ~a.isRunning /\ b.isRunning THEN FALSE
    ELSE b.createdAt[2] - a.createdAt[2] < 0

RECURSIVE insertSorted(_, _)
insertSorted(sorted, record) ==
    IF sorted = <<>> THEN <<record>>
    ELSE IF sortsBefore(record, Head(sorted)) THEN <<record>> \o sorted
    ELSE <<Head(sorted)>> \o insertSorted(Tail(sorted), record)

RECURSIVE sortRecords(_)
sortRecords(records) ==
    IF records = <<>> THEN <<>>
    ELSE insertSorted(sortRecords(SubSeq(records, 1, Len(records) - 1)),
                      records[Len(records)])

\* records of the forest: the stored trees, the open tree counted as displayed
ForestSize ==
    LET stored == getAllRecords(storage)
        others == SelectSeq(stored, LAMBDA r : timeRecords = <<>> \/ r.id # timeRecords[1].id) IN
    CountRecords(others) + CountRecords(timeRecords)

NoCommand == [op |-> "none", id |-> Null, at |-> 0, pre |-> <<>>]
Command(op, id, t, pre) == [op |-> op, id |-> id, at |-> t, pre |-> pre]

NoRun == [id |-> Null, t0 |-> 0, base |-> 0, restarted |-> FALSE, ended |-> FALSE]

\* the record started by toggleRecord(recordId), with the time it was started at and
\* the baseTime it was started with; a later toggle of the same id ends the run
trackRun(run, pre, post, recordId, t) ==
    LET targets == {p \in Paths(pre) : NodeAt(pre, p).id = recordId}
        started == {p \in targets : ~NodeAt(pre, p).isRunning} IN
    IF targets = {} THEN run
    ELSE IF started # {}
    THEN LET p == CHOOSE q \in started : TRUE IN
         [id |-> recordId, t0 |-> t, base |-> NodeAt(post, p).baseTime,
          restarted |-> FALSE, ended |-> FALSE]
    ELSE IF run.id = recordId /\ ~run.ended THEN [run EXCEPT !.ended = TRUE]
    ELSE NoRun

Init ==
    /\ now = StartOfTime
    /\ screen = "home"
    /\ routeId = Null
    /\ loaded = FALSE
    /\ timeRecords = <<>>
    /\ rootRecords = <<>>
    /\ storage = initialize(<<>>)
    /\ last = NoCommand
    /\ leftRunning = NoRun
    /\ calls = <<>>

\* useFocusEffect of the list screen
loadSavedRecords ==
    /\ screen = "home" /\ ~loaded
    /\ \E t \in Times(EffectDelays) :
        LET savedRecords == getAllRecords(storage)
            updatedRecords == [i \in DOMAIN savedRecords |->
                                  homeUpdateElapsedTime(savedRecords[i], t)] IN
        /\ now' = t
        /\ rootRecords' = sortRecords(updatedRecords)
        /\ loaded' = TRUE
        /\ last' = Command("load", Null, t, <<>>)
    /\ UNCHANGED <<screen, routeId, timeRecords, storage, leftRunning, calls>>

\* the new-recorder button of the list screen, while fewer than maxRoots are stored
handleAddRecorderUpTo(maxRoots) ==
    /\ screen = "home"
    /\ Len(getRecordIds(storage)) < maxRoots
    /\ ForestSize < MaxNodes
    /\ \E t \in Times(PressDelays) :
        LET newId == ToString(t)
            existingRecords == getAllRecords(storage) IN
        /\ now' = t
        /\ storage' = saveRecords(storage, Append(existingRecords, newRootRecord(newId, t)))
        /\ routeId' = newId
        /\ last' = Command("addRoot", newId, t, <<>>)
    /\ screen' = "recorder"
    /\ loaded' = FALSE
    /\ rootRecords' = <<>>
    /\ UNCHANGED <<timeRecords, leftRunning, calls>>

handleAddRecorder == handleAddRecorderUpTo(MaxRoots)

\* the one-second interval of the list screen: setCurrentTime(Date.now())
homeTimer ==
    /\ screen = "home" /\ loaded
    /\ \E t \in Times({MsPerSecond}) :
        /\ now' = t
        /\ last' = Command("timer", Null, t, <<>>)
    /\ UNCHANGED <<screen, routeId, loaded, timeRecords, rootRecords, storage, leftRunning, calls>>

\* a press on a listed record opens its recorder screen
openRecorder ==
    /\ screen = "home" /\ loaded
    /\ \E i \in DOMAIN rootRecords :
        /\ routeId' = rootRecords[i].id
        /\ last' = Command("open", rootRecords[i].id, now, <<>>)
    /\ screen' = "recorder"
    /\ loaded' = FALSE
    /\ rootRecords' = <<>>
    /\ UNCHANGED <<now, timeRecords, storage, leftRunning, calls>>

----------------------------------------------------------------------------
(* Recorder screen *)

initializeRecord ==
    /\ screen = "recorder" /\ ~loaded
    /\ \E t \in Times(EffectDelays) :
        LET existingRecord == getRecord(storage, routeId) IN
        /\ now' = t
        /\ last' = Command("init", routeId, t, <<>>)
        /\ IF existingRecord # <<>>
           THEN /\ timeRecords' = <<updateElapsedTime(existingRecord[1], t)>>
                /\ loaded' = TRUE
                /\ UNCHANGED screen
           ELSE /\ screen' = "home"
                /\ UNCHANGED <<timeRecords, loaded>>
    /\ UNCHANGED <<routeId, rootRecords, storage, leftRunning, calls>>

\* one animation frame of the recorder screen
updateTimes ==
    /\ screen = "recorder" /\ loaded
    /\ \E t \in Times(EffectDelays) :
        /\ now' = t
        /\ timeRecords' = [i \in DOMAIN timeRecords |-> updateRecordTime(timeRecords[i], t)]
        /\ last' = Command("tick", Null, t, <<>>)
    /\ UNCHANGED <<screen, routeId, loaded, rootRecords, storage, leftRunning, calls>>

\* what a press on the toggle button gets back: the handler returns nothing, whether
\* or not a record carries recordId
toggleRecordResult(records, recordId, t) == "undefined"

toggleRecord ==
    /\ screen = "recorder" /\ loaded
    /\ \E recordId \in Ids(timeRecords) \cup {MissingId}, t \in Times(PressDelays) :
        LET updatedRecords == updateRecordStatus(timeRecords, recordId, t) IN
        /\ now' = t
        /\ storage' = saveRecord(storage, updatedRecords[1])
        /\ timeRecords' = updatedRecords
        /\ last' = Command("toggle", recordId, t, timeRecords)
        /\ leftRunning' = trackRun(leftRunning, timeRecords, updatedRecords, recordId, t)
    /\ UNCHANGED <<screen, routeId, loaded, rootRecords, calls>>

\* the + button of a record, pressed one of delays after the previous event
addNewRecordAfter(delays) ==
    /\ screen = "recorder" /\ loaded
    /\ ForestSize < MaxNodes
    /\ \E parentId \in Ids(timeRecords), t \in Times(delays) :
        LET newId == ToString(t)
            newRecord == newChildRecord(newId, parentId, "Recording " \o newId, t) IN
        /\ now' = t
        /\ timeRecords' = updateRecordTree(timeRecords, parentId, newRecord)
        \* the handler saves the tree of the render it was created in
        /\ storage' = saveRecord(storage, timeRecords[1])
        /\ last' = Command("add", parentId, t, timeRecords)
    /\ UNCHANGED <<screen, routeId, loaded, rootRecords, leftRunning, calls>>

addNewRecord == addNewRecordAfter(PressDelays)

\* the break button of a record, pressed one of delays after the previous event
addBreakAfter(delays) ==
    /\ screen = "recorder" /\ loaded
    /\ ForestSize < MaxNodes
    /\ \E parentId \in Ids(timeRecords), t \in Times(delays) :
        LET newId == ToString(t)
            newRecord == newChildRecord(newId, parentId, "Break", t)
            newRecords == updateRecordTree(timeRecords, parentId, newRecord) IN
        /\ now' = t
        /\ timeRecords' = newRecords
        /\ storage' = saveRecord(storage, newRecords[1])
        /\ last' = Command("break", parentId, t, timeRecords)
    /\ UNCHANGED <<screen, routeId, loaded, rootRecords, leftRunning, calls>>

addBreak == addBreakAfter(PressDelays)

\* the collapse button, shown on a record that has children
toggleCollapse ==
    /\ screen = "recorder" /\ loaded
    /\ \E p \in Paths(timeRecords) :
        LET recordId == NodeAt(timeRecords, p).id
            newRecords == updateCollapse(timeRecords, recordId) IN
        /\ Len(NodeAt(timeRecords, p).children) > 0
        /\ Edited(newRecords) <= MaxEdits
        /\ timeRecords' = newRecords
        /\ storage' = saveRecord(storage, newRecords[1])
        /\ last' = Command("collapse", recordId, now, timeRecords)
    /\ UNCHANGED <<now, screen, routeId, loaded, rootRecords, leftRunning, calls>>

\* onChangeText of the title input
changeLabelText ==
    /\ screen = "recorder" /\ loaded
    /\ \E recordId \in Ids(timeRecords), text \in TypedLabels :
        LET newRecords == updateLabel(timeRecords, recordId, text) IN
        /\ Edited(newRecords) <= MaxEdits
        /\ timeRecords' = newRecords
        /\ last' = Command("label", recordId, now, timeRecords)
    /\ UNCHANGED <<now, screen, routeId, loaded, rootRecords, storage, leftRunning, calls>>

\* onBlur of the title input: updateRecordLabel(item.id, item.label || default)
updateRecordLabel ==
    /\ screen = "recorder" /\ loaded
    /\ \E p \in Paths(timeRecords) :
        LET item == NodeAt(timeRecords, p)
            newLabel == IF item.label # "" THEN item.label
                        ELSE "Recording " \o item.id
            newRecords == updateLabel(timeRecords, item.id, newLabel) IN
        /\ item.label \in TypedLabels
        /\ timeRecords' = newRecords
        /\ storage' = saveRecord(storage, newRecords[1])
        /\ last' = Command("rename", item.id, now, timeRecords)
    /\ UNCHANGED <<now, screen, routeId, loaded, rootRecords, leftRunning, calls>>

\* onChangeText of the note input
changeNoteText ==
    /\ screen = "recorder" /\ loaded
    /\ \E recordId \in Ids(timeRecords), text \in TypedNotes :
        LET newRecords == updateNote(timeRecords, recordId, text) IN
        /\ Edited(newRecords) <= MaxEdits
        /\ timeRecords' = newRecords
        /\ last' = Command("note", recordId, now, timeRecords)
    /\ UNCHANGED <<now, screen, routeId, loaded, rootRecords, storage, leftRunning, calls>>

\* onBlur of the note input: the tree is saved, isEditingNote is left
saveAndExitEdit ==
    /\ screen = "recorder" /\ loaded
    /\ \E p \in Paths(timeRecords) :
        /\ NodeAt(timeRecords, p).note \in TypedNotes
        /\ storage' = saveRecord(storage, timeRecords[1])
        /\ last' = Command("noteSaved", NodeAt(timeRecords, p).id, now, timeRecords)
    /\ UNCHANGED <<now, screen, routeId, loaded, timeRecords, rootRecords, leftRunning, calls>>

handleBack ==
    /\ screen = "recorder" /\ loaded
    /\ storage' = IF Len(timeRecords) > 0 THEN saveRecord(storage, timeRecords[1])
                  ELSE storage
    /\ screen' = "home"
    /\ loaded' = FALSE
    /\ timeRecords' = <<>>
    /\ last' = Command("back", Null, now, <<>>)
    /\ UNCHANGED <<now, routeId, rootRecords, leftRunning, calls>>

\* the process is killed and started again: only AsyncStorage survives, and the
\* storage module's initialize() runs again
restart ==
    /\ screen = "recorder" /\ loaded
    /\ screen' = "home"
    /\ loaded' = FALSE
    /\ timeRecords' = <<>>
    /\ rootRecords' = <<>>
    /\ storage' = initialize(storage)
    /\ last' = Command("restart", Null, now, <<>>)
    /\ leftRunning' = IF leftRunning # NoRun /\ ~leftRunning.ended
                      THEN [leftRunning EXCEPT !.restarted = TRUE]
                      ELSE leftRunning
    /\ UNCHANGED <<now, routeId, calls>>

\* The break button adds a child the way addNewRecord does; it is kept out of Next,
\* which holds the commands the timer properties range over.
Next ==
    \/ loadSavedRecords
    \/ handleAddRecorder
    \/ homeTimer
    \/ openRecorder
    \/ initializeRecord
    \/ updateTimes
    \/ toggleRecord
    \/ addNewRecord
    \/ handleBack
    \/ restart

Spec == Init /\ [][Next]_vars

\* The recorder screen of one new root record with the commands that toggle, add,
\* collapse, rename and annotate.
NextEdit ==
    \/ handleAddRecorder
    \/ initializeRecord
    \/ toggleRecord
    \/ (CountRecords(timeRecords) < MaxEditNodes /\ addNewRecord)
    \/ toggleCollapse
    \/ changeLabelText
    \/ updateRecordLabel
    \/ changeNoteText
    \/ saveAndExitEdit

EditSpec == Init /\ [][NextEdit]_vars

\* The recorder screen of one new root record with every command that changes the
\* tree: toggle, both ways of adding a child, collapse, rename and annotate.
NextTree ==
    \/ handleAddRecorder
    \/ initializeRecord
    \/ toggleRecord
    \/ (CountRecords(timeRecords) < MaxEditNodes /\ addNewRecord)
    \/ (CountRecords(timeRecords) < MaxEditNodes /\ addBreak)
    \/ toggleCollapse
    \/ changeLabelText
    \/ updateRecordLabel
    \/ changeNoteText
    \/ saveAndExitEdit

TreeSpec == Init /\ [][NextTree]_vars

\* The list screen with several recorders, each opened, toggled and left in turn.
handleAddRecorderListed == handleAddRecorderUpTo(MaxListed)

NextRoots ==
    \/ loadSavedRecords
    \/ handleAddRecorderListed
    \/ openRecorder
    \/ initializeRecord
    \/ toggleRecord
    \/ handleBack

RootsSpec == Init /\ [][NextRoots]_vars

\* press handlers that run back to back: an add that follows an add may read the
\* same millisecond
AddDelays == IF last.op \in {"add", "break"} THEN QueuedDelays ELSE PressDelays
addNewRecordQueued == addNewRecordAfter(AddDelays)
addBreakQueued == addBreakAfter(AddDelays)

\* The screens with the commands that create records, presses queued or not.
NextAdd ==
    \/ loadSavedRecords
    \/ handleAddRecorder
    \/ openRecorder
    \/ initializeRecord
    \/ addNewRecordQueued
    \/ addBreakQueued
    \/ handleBack

AddSpec == Init /\ [][NextAdd]_vars

----------------------------------------------------------------------------
(* The storage service called directly *)

SampleIds == {"a", "b", "c"}
\* for each id a stopped root record and the same record running, and for b and c
\* a record that is a child of a
SampleRecords ==
    {newRootRecord(id, StartOfTime) : id \in SampleIds}
        \cup {startTarget(newRootRecord(id, StartOfTime), StartOfTime) : id \in SampleIds}
        \cup {newChildRecord(id, "a", "Recording " \o id, StartOfTime) : id \in {"b", "c"}}
\* the lists passed to saveRecords
SampleLists ==
    {<<r1, r2>> : r1 \in {r \in SampleRecords : r.id = "a"},
                  r2 \in {r \in SampleRecords : r.id = "b"}}

\* a call of the service: the store it found, the write that was rejected if any,
\* how its promise settled and the value it resolved with
StoreCall(op, id, pre, fault, failed, result) ==
    [op |-> op, id |-> id, at |-> now, pre |-> pre, fault |-> fault,
     failed |-> failed, outcome |-> settled(failed), result |-> result]

StoreUnchanged == UNCHANGED <<now, screen, routeId, loaded, timeRecords, rootRecords, leftRunning, calls>>

callInitialize ==
    /\ storage' = initialize(storage)
    /\ last' = StoreCall("initialize", Null, storage, NoFault, FALSE, <<>>)
    /\ StoreUnchanged

callSaveRecord ==
    /\ \E record \in SampleRecords, fault \in Faults :
        /\ storage' = saveRecordOrFail(storage, record, fault)
        /\ last' = StoreCall("saveRecord", record.id, storage, fault,
                             rejected(storage, <<record>>, FaultIndex(fault)), <<>>)
    /\ StoreUnchanged

callSaveRecords ==
    /\ \E records \in SampleLists, fault \in Faults :
        /\ storage' = saveRecordsOrFail(storage, records, FaultIndex(fault))
        /\ last' = StoreCall("saveRecords", Null, storage, fault,
                             rejected(storage, records, FaultIndex(fault)), <<>>)
    /\ StoreUnchanged

callDeleteRecord ==
    /\ \E id \in SampleIds, fault \in Faults :
        /\ storage' = deleteRecordOrFail(storage, id, fault)
        /\ last' = StoreCall("deleteRecord", id, storage, fault, fault # NoFault, <<>>)
    /\ StoreUnchanged

callClearStorage ==
    /\ \E fault \in Faults :
        /\ storage' = clearAllDataOrFail(storage, fault)
        /\ last' = StoreCall("clearStorage", Null, storage, fault,
                             FaultIndex(fault) \in DOMAIN clearedKeys(storage), <<>>)
    /\ StoreUnchanged

callLoadRecord ==
    /\ \E id \in SampleIds :
        last' = StoreCall("loadRecord", id, storage, NoFault, FALSE, getRecord(storage, id))
    /\ UNCHANGED storage
    /\ StoreUnchanged

callLoadRecords ==
    /\ last' = StoreCall("loadRecords", Null, storage, NoFault, FALSE, getAllRecords(storage))
    /\ UNCHANGED storage
    /\ StoreUnchanged

callLoadRootRecords ==
    /\ last' = StoreCall("loadRootRecords", Null, storage, NoFault, FALSE,
                         getRootRecords(storage))
    /\ UNCHANGED storage
    /\ StoreUnchanged

callLoadChildRecords ==
    /\ \E parentId \in SampleIds :
        last' = StoreCall("loadChildRecords", parentId, storage, NoFault, FALSE,
                          getChildRecords(storage, parentId))
    /\ UNCHANGED storage
    /\ StoreUnchanged

\* Calls of the service one after the other, each run to completion.
NextStore ==
    \/ callInitialize
    \/ callSaveRecord
    \/ callSaveRecords
    \/ callDeleteRecord
    \/ callClearStorage
    \/ callLoadRecord
    \/ callLoadRecords
    \/ callLoadRootRecords
    \/ callLoadChildRecords

StoreSpec == Init /\ [][NextStore]_vars

----------------------------------------------------------------------------
(* Storage calls in flight together *)

\* Every await of a provider method is a point where another call may run.  A
\* call in flight is at the AsyncStorage operation it issues next (pc) and holds
\* the locals it has computed so far.

RaceIds == {"a", "b"}
RaceRecords == {newRootRecord(id, StartOfTime) : id \in RaceIds}
RaceLists == {<<r1, r2>> : r1 \in {r \in RaceRecords : r.id = "a"},
                           r2 \in {r \in RaceRecords : r.id = "b"}}

NewCall(op, arg, pc, n) ==
    [op |-> op, arg |-> arg, pc |-> pc, recordIds |-> <<>>, keys |-> {}, n |-> n]

\* a variant of Array.includes that never finds the id
includesNever(recordIds, id) == FALSE

\* recordIds.includes(id)
includes(recordIds, id) == \E i \in DOMAIN recordIds : recordIds[i] = id

\* the next AsyncStorage operation of initialize and the code up to the next await
initializeStep(s, c) ==
    IF c.pc = "getItem"
    THEN [s |-> s,
          c |-> [c EXCEPT !.pc = IF getItem(s, RECORDS_INDEX_KEY) = <<>>
                                 THEN "setItem" ELSE "done"]]
    ELSE [s |-> setItem(s, RECORDS_INDEX_KEY, <<>>), c |-> [c EXCEPT !.pc = "done"]]

\* the next AsyncStorage operation of saveRecord(record), updateRecordIndex included
saveRecordStep(s, c, record) ==
    CASE c.pc = "setItem" ->
            [s |-> setItem(s, recordKey(record.id), stringify(record)),
             c |-> [c EXCEPT !.pc = "getRecordIds"]]
      [] c.pc = "getRecordIds" ->
            LET recordIds == getRecordIds(s) IN
            IF ~includes(recordIds, record.id)
            THEN [s |-> s, c |-> [c EXCEPT !.pc = "setIndex",
                                           !.recordIds = Append(recordIds, record.id)]]
            ELSE [s |-> s, c |-> [c EXCEPT !.pc = "done"]]
      [] OTHER ->
            [s |-> setItem(s, RECORDS_INDEX_KEY, c.recordIds),
             c |-> [c EXCEPT !.pc = "done"]]

\* saveRecords(records): one saveRecord after the other
saveRecordsStep(s, c) ==
    LET saved == saveRecordStep(s, c, Head(c.arg)) IN
    IF saved.c.pc = "done" /\ Len(c.arg) > 1
    THEN [s |-> saved.s, c |-> [saved.c EXCEPT !.pc = "setItem", !.arg = Tail(c.arg),
                                               !.recordIds = <<>>]]
    ELSE saved

\* the next AsyncStorage operation of deleteRecord(id)
deleteRecordStep(s, c) ==
    CASE c.pc = "removeItem" ->
            [s |-> removeItem(s, recordKey(c.arg)), c |-> [c EXCEPT !.pc = "getRecordIds"]]
      [] c.pc = "getRecordIds" ->
            [s |-> s,
             c |-> [c EXCEPT !.pc = "setIndex",
                             !.recordIds = SelectSeq(getRecordIds(s),
                                                     LAMBDA recordId : recordId # c.arg)]]
      [] OTHER ->
            [s |-> setItem(s, RECORDS_INDEX_KEY, c.recordIds),
             c |-> [c EXCEPT !.pc = "done"]]

\* the next AsyncStorage operation of clearAllData; the removals of Promise.all
\* take effect one by one, key being the one that takes effect now
clearAllDataStep(s, c, key) ==
    IF c.pc = "getRecordIds"
    THEN [s |-> s,
          c |-> [c EXCEPT !.pc = "removeItem",
                          !.keys = {clearedKeys(s)[i] : i \in DOMAIN clearedKeys(s)}]]
    ELSE [s |-> removeItem(s, key),
          c |-> [c EXCEPT !.keys = @ \ {key},
                          !.pc = IF c.keys \ {key} = {} THEN "done" ELSE "removeItem"]]

\* the calls begun since the store was last idle: what was called, in the order
\* the calls began; the numbers of the calls that have completed, in the order
\* they completed; and the pairs of calls that were in flight together
Burst(pre, began, log, overlap) ==
    [op |-> "calls", id |-> Null, at |-> now, pre |-> pre,
     began |-> began, log |-> log, overlap |-> overlap]

\* a call joins the calls in flight
begin(op, arg, id, pc) ==
    /\ IF calls = <<>>
       THEN /\ calls' = <<NewCall(op, arg, pc, 1)>>
            /\ last' = Burst(storage, <<[op |-> op, id |-> id]>>, <<>>, {})
       ELSE /\ Len(last.began) < MaxBurst
            /\ calls' = Append(calls, NewCall(op, arg, pc, Len(last.began) + 1))
            /\ last' = Burst(last.pre, Append(last.began, [op |-> op, id |-> id]), last.log,
                             last.overlap \cup {<<calls[i].n, Len(last.began) + 1>>
                                                   : i \in DOMAIN calls})
    /\ UNCHANGED <<now, screen, routeId, loaded, timeRecords, rootRecords, storage,
                   leftRunning>>

\* call i has taken a step that left the store as s and the call as c
stepped(i, s, c) ==
    /\ storage' = s
    /\ IF c.pc = "done"
       THEN /\ calls' = SubSeq(calls, 1, i - 1) \o SubSeq(calls, i + 1, Len(calls))
            /\ last' = [last EXCEPT !.log = Append(@, c.n)]
       ELSE /\ calls' = [calls EXCEPT ![i] = c]
            /\ UNCHANGED last
    /\ UNCHANGED <<now, screen, routeId, loaded, timeRecords, rootRecords, leftRunning>>

beginInitialize ==
    /\ Len(calls) < MaxInFlight
    /\ begin("initialize", Null, Null, "getItem")

beginSaveRecord ==
    /\ Len(calls) < MaxInFlight
    /\ \E record \in RaceRecords : begin("saveRecord", record, record.id, "setItem")

beginSaveRecords ==
    /\ Len(calls) < MaxInFlight
    /\ \E records \in RaceLists : begin("saveRecords", records, Null, "setItem")

beginDeleteRecord ==
    /\ Len(calls) < MaxInFlight
    /\ \E id \in RaceIds : begin("deleteRecord", id, id, "removeItem")

beginClearStorage ==
    /\ Len(calls) < MaxInFlight
    /\ begin("clearStorage", Null, Null, "getRecordIds")

stepInitialize ==
    \E i \in DOMAIN calls :
        /\ calls[i].op = "initialize"
        /\ LET r == initializeStep(storage, calls[i]) IN stepped(i, r.s, r.c)

stepSaveRecord ==
    \E i \in DOMAIN calls :
        /\ calls[i].op = "saveRecord"
        /\ LET r == saveRecordStep(storage, calls[i], calls[i].arg) IN stepped(i, r.s, r.c)

stepSaveRecords ==
    \E i \in DOMAIN calls :
        /\ calls[i].op = "saveRecords"
        /\ LET r == saveRecordsStep(storage, calls[i]) IN stepped(i, r.s, r.c)

stepDeleteRecord ==
    \E i \in DOMAIN calls :
        /\ calls[i].op = "deleteRecord"
        /\ LET r == deleteRecordStep(storage, calls[i]) IN stepped(i, r.s, r.c)

stepClearStorage ==
    \E i \in DOMAIN calls :
        /\ calls[i].op = "clearStorage"
        /\ \E key \in IF calls[i].pc = "getRecordIds" THEN {RECORDS_INDEX_KEY}
                      ELSE calls[i].keys :
              LET r == clearAllDataStep(storage, calls[i], key) IN stepped(i, r.s, r.c)

\* Calls of the service begun while others are in flight, their AsyncStorage
\* operations interleaved in any order.
NextRace ==
    \/ beginInitialize
    \/ beginSaveRecord
    \/ beginSaveRecords
    \/ beginDeleteRecord
    \/ beginClearStorage
    \/ stepInitialize
    \/ stepSaveRecord
    \/ stepSaveRecords
    \/ stepDeleteRecord
    \/ stepClearStorage

RaceSpec == Init /\ [][NextRace]_vars

----------------------------------------------------------------------------
(* Vocabulary of the properties *)

\* the live time of a record at time t
liveTime(record, t) ==
    IF record.isRunning /\ Truthy(record.startTime)
    THEN record.baseTime + elapsedSeconds(t, record.startTime)
    ELSE record.time

Toggled == last.op = "toggle"
Pre(p) == NodeAt(last.pre, p)
Post(p) == NodeAt(timeRecords, p)
\* the records the last toggle named
Targets == {p \in Paths(last.pre) : Pre(p).id = last.id}
Started == {p \in Targets : ~Pre(p).isRunning}
Stopped == {p \in Targets : Pre(p).isRunning}
AllPaths == Paths(last.pre)

\* a record stopped at the time of the last command, its open interval credited
CreditedStop(p) ==
    /\ ~Post(p).isRunning
    /\ Post(p).baseTime = Pre(p).baseTime + elapsedSeconds(last.at, Pre(p).startTime)
    /\ Post(p).time = Post(p).baseTime
    /\ Post(p).startTime = Undefined

----------------------------------------------------------------------------
(* Properties *)

\* C1: among the children of any single record at most one is running, in every
\* state the toggle commands can lead to.
C1_OneRunningSibling ==
    \A p, q \in Paths(timeRecords) :
        Siblings(p, q) =>
            ~(NodeAt(timeRecords, p).isRunning /\ NodeAt(timeRecords, q).isRunning)

\* C2: when a stopped record is toggled on while a sibling is running, the sibling
\* is stopped with its elapsed seconds added to baseTime, time = baseTime and
\* startTime cleared.
C2_PreemptedSiblingCredited ==
    Toggled =>
        \A p \in Started : \A q \in AllPaths :
            (Siblings(p, q) /\ Pre(q).isRunning) => CreditedStop(q)

\* C3: toggling a running record at time now adds floor((now - startTime)/1000) to
\* its baseTime, sets time = baseTime, clears startTime and stops it; a root with
\* baseTime 0 that ran for k whole seconds ends with time = k.
C3_StopCreditsTarget ==
    Toggled =>
        \A p \in Stopped :
            /\ CreditedStop(p)
            /\ \A k \in 0..(MaxNow \div MsPerSecond) :
                (Pre(p).baseTime = 0 /\ last.at = Pre(p).startTime + k * MsPerSecond)
                    => Post(p).time = k

C3_Witness ==
    /\ Toggled
    /\ \E p \in Stopped :
        /\ Len(p) = 1
        /\ Pre(p).baseTime = 0
        /\ last.at = Pre(p).startTime + MsPerSecond
        /\ Post(p).time = 1
        /\ ~Post(p).isRunning

C5_DescendantsCredited ==
    Toggled =>
        \A p \in Stopped : \A q \in AllPaths :
            (StrictAncestor(p, q) /\ Pre(q).isRunning) => CreditedStop(q)

\* C6: after a running record is toggled off, none of its descendants, at any
\* depth, is running.
C6_NoDescendantRunning ==
    Toggled =>
        \A p \in Stopped : \A q \in Paths(timeRecords) :
            StrictAncestor(p, q) => ~Post(q).isRunning

C6_Witness ==
    /\ Toggled
    /\ \E p \in Stopped : \E q \in AllPaths :
        /\ StrictAncestor(p, q)
        /\ Len(q) = Len(p) + 2
        /\ Pre(q).isRunning
        /\ ~Post(q).isRunning

\* C7: when a running record is toggled off, a strict ancestor that still has
\* another running descendant remains running.
C7_AncestorReevaluated ==
    Toggled =>
        \A p \in Stopped : \A a \in AllPaths :
            (/\ StrictAncestor(a, p)
             /\ Pre(a).isRunning
             /\ \E d \in AllPaths : StrictAncestor(a, d) /\ Post(d).isRunning)
                => Post(a).isRunning

\* C8: a running record has only running strict ancestors, in every state the
\* toggle and add commands can lead to.
C8_RunningAncestors ==
    \A a, p \in Paths(timeRecords) :
        (StrictAncestor(a, p) /\ NodeAt(timeRecords, p).isRunning)
            => NodeAt(timeRecords, a).isRunning

\* C9: toggling a stopped record at time now makes it running with startTime = now
\* and baseTime = its time before the toggle, and makes every strict ancestor
\* running.
C9_StartTarget ==
    Toggled =>
        \A p \in Started :
            /\ Post(p).isRunning
            /\ Post(p).startTime = last.at
            /\ Post(p).baseTime = Pre(p).time
            /\ \A a \in AllPaths : StrictAncestor(a, p) => Post(a).isRunning

C9_Witness ==
    /\ Toggled
    /\ \E p \in Started :
        /\ Len(p) = 3
        /\ Pre(p).time > 0
        /\ \E a \in AllPaths : StrictAncestor(a, p) /\ ~Pre(a).isRunning
        /\ \A a \in AllPaths : StrictAncestor(a, p) => Post(a).isRunning
        /\ Post(p).baseTime = Pre(p).time

\* C10: when a stopped record is toggled on at time now, every strict ancestor
\* starts a fresh interval from its live time: startTime = now and baseTime = its
\* live time at now, whether or not a display tick has run.
C10_AncestorFreshInterval ==
    Toggled =>
        \A p \in Started : \A a \in AllPaths :
            StrictAncestor(a, p) =>
                /\ Post(a).startTime = last.at
                /\ Post(a).baseTime = liveTime(Pre(a), last.at)

\* C11: the live time of a record that stays running never decreases from one
\* step to the next, whatever command or display tick the step is.
C11_LiveTimeMonotone ==
    [][\A p \in Paths(timeRecords) \cap Paths(timeRecords') :
          (/\ NodeAt(timeRecords, p).id = NodeAt(timeRecords', p).id
           /\ NodeAt(timeRecords, p).isRunning
           /\ NodeAt(timeRecords', p).isRunning)
              => liveTime(NodeAt(timeRecords', p), now')
                     >= liveTime(NodeAt(timeRecords, p), now)]_vars

\* C12: a record that is not running has no startTime and baseTime = time, in
\* every state of the recorder screen.
C12_StoppedIsSettled ==
    \A p \in Paths(timeRecords) :
        ~NodeAt(timeRecords, p).isRunning =>
            /\ NodeAt(timeRecords, p).startTime = Undefined
            /\ NodeAt(timeRecords, p).baseTime = NodeAt(timeRecords, p).time

\* the running records of a list of trees carry a startTime that is not in the future
StartTimesSet(records) ==
    \A p \in Paths(records) :
        NodeAt(records, p).isRunning =>
            /\ Truthy(NodeAt(records, p).startTime)
            /\ NodeAt(records, p).startTime <= now

\* C13: a running record has its startTime set, on the recorder screen, on the list
\* screen and in the store; a toggle that makes a record running sets startTime to
\* the time of the toggle, and a record it leaves running keeps startTime or gets
\* the time of the toggle.
C13_RunningHasStartTime ==
    /\ StartTimesSet(timeRecords)
    /\ StartTimesSet(rootRecords)
    /\ StartTimesSet(getAllRecords(storage))
    /\ Toggled =>
          \A p \in AllPaths :
              Post(p).isRunning =>
                  /\ ~Pre(p).isRunning => Post(p).startTime = last.at
                  /\ Post(p).startTime \in {last.at, Pre(p).startTime}

C13_Witness ==
    /\ Toggled
    /\ \E p \in Started : \E q \in AllPaths :
        /\ Len(p) > 1
        /\ Post(p).isRunning /\ Post(p).startTime = last.at
        /\ ~Pre(Parent(p)).isRunning /\ Post(Parent(p)).startTime = last.at
        /\ Post(q).isRunning /\ Post(q).startTime < last.at

\* C14: after a root or a child is added, the store holds the new record: the root
\* among the stored records, the child among the children of its parent in the
\* stored tree of the open root.
C14_AddPersisted ==
    /\ last.op = "addRoot" =>
          \E p \in Paths(getAllRecords(storage)) :
              NodeAt(getAllRecords(storage), p).id = last.id
    /\ last.op = "add" =>
          \E p \in Paths(getRecord(storage, routeId)) :
              /\ Len(p) > 1
              /\ NodeAt(getRecord(storage, routeId), p).id = ToString(last.at)
              /\ NodeAt(getRecord(storage, routeId), Parent(p)).id = last.id

\* C15: a toggle of an id no record carries hands back a result that differs
\* from the result of a toggle of an id of the tree.
C15_MissingIdReported ==
    (Toggled /\ Targets = {}) =>
        \A id \in Ids(last.pre) :
            toggleRecordResult(last.pre, last.id, last.at)
                # toggleRecordResult(last.pre, id, last.at)

\* C16: a toggle of an id no record carries leaves the tree as it was: the same
\* records with the same fields.
C16_MissingIdNoOp ==
    (Toggled /\ Targets = {}) => timeRecords = last.pre

C16_Witness ==
    /\ Toggled /\ last.id = MissingId
    /\ timeRecords = last.pre
    /\ \E p \in AllPaths : Len(p) = 2 /\ Pre(p).isRunning /\ Pre(Parent(p)).isRunning

\* the fields of a record other than its children
OwnFields(record) == [f \in DOMAIN record \ {"children"} |-> record[f]]

\* C18: a display tick writes nothing to the store and changes nothing but the
\* time of the running records, which becomes their live time; the timer of the
\* list screen changes no record at all.
C18_TickFrame ==
    [][/\ last'.op = "tick" =>
            /\ storage' = storage
            /\ Paths(timeRecords') = Paths(timeRecords)
            /\ \A p \in Paths(timeRecords) :
                /\ [OwnFields(NodeAt(timeRecords', p)) EXCEPT !.time = 0]
                       = [OwnFields(NodeAt(timeRecords, p)) EXCEPT !.time = 0]
                /\ NodeAt(timeRecords', p).time = liveTime(NodeAt(timeRecords, p), now')
       /\ last'.op = "timer" =>
            /\ storage' = storage
            /\ rootRecords' = rootRecords
            /\ timeRecords' = timeRecords]_vars

C18_Witness ==
    /\ last.op = "tick"
    /\ \E p \in Paths(timeRecords) :
        /\ Len(p) = 2
        /\ NodeAt(timeRecords, p).isRunning
        /\ NodeAt(timeRecords, p).time = NodeAt(timeRecords, p).baseTime + 1
        /\ NodeAt(timeRecords, p).startTime = now - MsPerSecond

\* the field a command of the recorder screen may write in the record it names
EditedField(op) ==
    CASE op = "collapse" -> {"isCollapsed"}
      [] op \in {"label", "rename"} -> {"label"}
      [] op = "note" -> {"note"}
      [] OTHER -> {}

EditOps == {"add", "collapse", "label", "rename", "note", "noteSaved"}

\* C17: add, rename, annotate and collapse leave isRunning, baseTime, startTime and
\* time of every record as they were and change nothing in any record but the one
\* named: its collapsed flag, label or note, or for an add the children of the
\* parent, which gain the new record at the end.
C17_EditFrame ==
    last.op \in EditOps =>
        /\ \A p \in AllPaths :
            /\ p \in Paths(timeRecords)
            /\ \A f \in DOMAIN Pre(p) \ {"children"} :
                (Pre(p).id # last.id \/ f \notin EditedField(last.op))
                    => Post(p)[f] = Pre(p)[f]
            /\ Len(Post(p).children) =
                  Len(Pre(p).children)
                      + (IF last.op = "add" /\ Pre(p).id = last.id THEN 1 ELSE 0)
        /\ \A q \in Paths(timeRecords) \ AllPaths :
            /\ last.op = "add"
            /\ Pre(Parent(q)).id = last.id
            /\ q[Len(q)] = Len(Pre(Parent(q)).children) + 1
            /\ Post(q) = newChildRecord(ToString(last.at), last.id,
                                        "Recording " \o ToString(last.at), last.at)

\* a record two levels down is running with credited time, and a command edits it
C17_Witness ==
    /\ last.op \in {"rename", "note", "collapse", "add"}
    /\ \E p \in AllPaths :
        /\ Len(p) = 2
        /\ Pre(p).id = last.id
        /\ Pre(p).isRunning /\ Pre(p).baseTime > 0
        /\ Post(p).isRunning /\ Post(p).time = Pre(p).time
        /\ \/ Post(p).label # Pre(p).label
           \/ Post(p).note # Pre(p).note
           \/ Len(Post(p).children) > Len(Pre(p).children)

\* the ids of the records of a forest are pairwise different
UniqueIds(records) ==
    \A p, q \in Paths(records) :
        p # q => NodeAt(records, p).id # NodeAt(records, q).id

\* C19: no two records have the same id, in the open tree and in the stored
\* forest, whatever the times of the add commands, the same millisecond included.
C19_UniqueIds ==
    /\ UniqueIds(timeRecords)
    /\ UniqueIds(getAllRecords(storage))

\* an id is in the index
Indexed(s, id) == \E i \in DOMAIN getRecordIds(s) : getRecordIds(s)[i] = id

\* C20: between two calls of the service an id is in the index exactly if a record
\* value is stored for it, also after a call in which one storage write failed.
C20_IndexMatchesValues ==
    \A id \in SampleIds :
        Indexed(storage, id) <=> getItem(storage, recordKey(id)) # <<>>

StoreWrites == {"saveRecord", "saveRecords", "deleteRecord", "clearStorage"}

\* C21: a call of saveRecord, saveRecords, deleteRecord or clearStorage during which
\* a storage write is rejected settles as a failed operation.
C21_FailureSurfaced ==
    (last.op \in StoreWrites /\ last.failed) => last.outcome = "rejected"

\* C22: after deleteRecord(id) the id is not in the index and loadRecords returns no
\* record with that id, also when the value key was not removed.
C22_DeletedNotListed ==
    last.op = "deleteRecord" =>
        /\ ~Indexed(storage, last.id)
        /\ \A i \in DOMAIN getAllRecords(storage) :
              getAllRecords(storage)[i].id # last.id

\* the ids stored in s as records below id: children by parentId, at any depth
RECURSIVE DescendantIds(_, _, _)
DescendantIds(s, ids, depth) ==
    IF depth = 0 THEN {}
    ELSE LET children == {c \in SampleIds :
                             /\ getRecord(s, c) # <<>>
                             /\ getRecord(s, c)[1].parentId \in ids} IN
         children \cup DescendantIds(s, children, depth - 1)

\* C23: after deleteRecord(id) no record stored below id is left: loadRecord of a
\* descendant returns null, and the index, loadRecords and loadChildRecords hold
\* none of them.
C23_DeleteCascades ==
    (last.op = "deleteRecord" /\ ~last.failed /\ getRecord(last.pre, last.id) # <<>>) =>
        \A d \in DescendantIds(last.pre, {last.id}, Cardinality(SampleIds)) :
            /\ getRecord(storage, d) = <<>>
            /\ ~Indexed(storage, d)
            /\ \A i \in DOMAIN getAllRecords(storage) : getAllRecords(storage)[i].id # d
            /\ \A i \in DOMAIN getChildRecords(storage, last.id) :
                  getChildRecords(storage, last.id)[i].id # d

\* C24: a tree that has just been saved is loaded back with the same fields at every
\* record: after a toggle the stored tree of the open root equals the tree on the
\* screen, and after a root is added the store returns the new record.
C24_RoundTrip ==
    /\ Toggled => getRecord(storage, timeRecords[1].id) = <<timeRecords[1]>>
    /\ last.op = "addRoot" =>
          getRecord(storage, last.id) = <<newRootRecord(last.id, last.at)>>

C24_Witness ==
    /\ Toggled
    /\ getRecord(storage, timeRecords[1].id) = <<timeRecords[1]>>
    /\ timeRecords[1].note = NoNote
    /\ \E p, q \in Paths(timeRecords) :
        /\ Len(p) = 3
        /\ Post(p).isRunning /\ Post(p).startTime = last.at /\ Post(p).note = ""
        /\ ~Post(q).isRunning /\ Post(q).startTime = Undefined /\ Post(q).baseTime > 0

\* a record value is stored for id
Stored(s, id) == getItem(s, recordKey(id)) # <<>>

\* C25: loadRecords returns, in the order of the index, the stored records of the
\* indexed ids and skips an indexed id that has no value.
C25_LoadRecords ==
    last.op = "loadRecords" =>
        LET present == SelectSeq(getRecordIds(last.pre),
                                 LAMBDA id : Stored(last.pre, id)) IN
        /\ last.outcome = "resolved"
        /\ Len(last.result) = Len(present)
        /\ \A i \in DOMAIN present :
              last.result[i] = parse(getItem(last.pre, recordKey(present[i]))[1])

C25_Witness ==
    /\ last.op = "loadRecords"
    /\ Len(getRecordIds(last.pre)) = Cardinality(SampleIds)
    /\ Stored(last.pre, getRecordIds(last.pre)[1])
    /\ ~Stored(last.pre, getRecordIds(last.pre)[2])
    /\ Stored(last.pre, getRecordIds(last.pre)[3])
    /\ Len(last.result) = 2
    /\ last.result[1].id = getRecordIds(last.pre)[1]
    /\ last.result[2].id = getRecordIds(last.pre)[3]

\* C26: initialize writes an empty index if the store has none and changes nothing
\* else; on a store that has an index it changes nothing, so a second call in a row
\* changes nothing.
C26_Initialize ==
    last.op = "initialize" =>
        /\ getItem(last.pre, RECORDS_INDEX_KEY) # <<>> => storage = last.pre
        /\ getItem(last.pre, RECORDS_INDEX_KEY) = <<>> =>
              /\ DOMAIN storage = DOMAIN last.pre \cup {RECORDS_INDEX_KEY}
              /\ getRecordIds(storage) = <<>>
              /\ \A k \in DOMAIN last.pre : storage[k] = last.pre[k]
        /\ initialize(storage) = storage

C26_Witness ==
    /\ last.op = "initialize"
    /\ getItem(last.pre, RECORDS_INDEX_KEY) = <<>>
    /\ \E id \in SampleIds : Stored(last.pre, id) /\ Stored(storage, id)
    /\ getItem(storage, RECORDS_INDEX_KEY) = <<<<>>>>

C28_DeleteAbsent ==
    (last.op = "deleteRecord" /\ ~Stored(last.pre, last.id)
                              /\ ~Indexed(last.pre, last.id)) =>
        /\ last.outcome = "resolved"
        /\ \A id \in SampleIds :
              getItem(storage, recordKey(id)) = getItem(last.pre, recordKey(id))
        /\ getRecordIds(storage) = getRecordIds(last.pre)

C28_Witness ==
    /\ last.op = "deleteRecord" /\ last.fault = NoFault
    /\ ~Stored(last.pre, last.id) /\ ~Indexed(last.pre, last.id)
    /\ Len(getRecordIds(last.pre)) = 2
    /\ \A id \in SampleIds \ {last.id} : Stored(storage, id)
    /\ getRecordIds(storage) = getRecordIds(last.pre)

\* C29: loadRecord of an id that has no stored value resolves with null and changes
\* neither the index nor a stored value.
C29_LoadAbsent ==
    (last.op = "loadRecord" /\ ~Stored(last.pre, last.id)) =>
        /\ last.outcome = "resolved"
        /\ last.result = <<>>
        /\ storage = last.pre

C29_Witness ==
    /\ last.op = "loadRecord"
    /\ ~Stored(last.pre, last.id) /\ Indexed(last.pre, last.id)
    /\ last.result = <<>>
    /\ \E id \in SampleIds : Stored(storage, id)

\* the positions of the records of a list whose parentId is k
Matching(records, k) == {i \in DOMAIN records : records[i].parentId = k}

\* C30: loadRootRecords returns the records of loadRecords whose parentId is null,
\* and loadChildRecords(k) those whose parentId is k, each in the order of
\* loadRecords and nothing else.
C30_FilteredListings ==
    last.op \in {"loadRootRecords", "loadChildRecords"} =>
        LET k == IF last.op = "loadRootRecords" THEN Null ELSE last.id
            all == getAllRecords(last.pre)
            m == Matching(all, k) IN
        /\ Len(last.result) = Cardinality(m)
        /\ \A i \in m : last.result[Cardinality({j \in m : j <= i})] = all[i]

C30_Witness ==
    /\ last.op = "loadChildRecords"
    /\ Len(getAllRecords(last.pre)) = Cardinality(SampleIds)
    /\ getAllRecords(last.pre)[2].parentId = Null
    /\ Len(last.result) = 2
    /\ last.result[1] = getAllRecords(last.pre)[1]
    /\ last.result[2] = getAllRecords(last.pre)[3]

\* C31: toggling a stopped record on changes no field of any of its descendants.
C31_StartLeavesDescendants ==
    Toggled => \A p \in Started : Post(p).children = Pre(p).children

C31_Witness ==
    /\ Toggled
    /\ \E p \in Started : \E q \in AllPaths :
        /\ StrictAncestor(p, q)
        /\ Len(q) = Len(p) + 2
        /\ Pre(Parent(q)).time > 0
        /\ Post(p).isRunning /\ Post(p).startTime = last.at
        /\ Post(q) = Pre(q) /\ Post(Parent(q)) = Pre(Parent(q))

\* C33: the live time of a record, running or not, never decreases from one step
\* to the next, whatever command, display tick or reload the step is.
C33_NoTimeTakenAway ==
    [][\A p \in Paths(timeRecords) \cap Paths(timeRecords') :
          NodeAt(timeRecords, p).id = NodeAt(timeRecords', p).id
              => liveTime(NodeAt(timeRecords', p), now')
                     >= liveTime(NodeAt(timeRecords, p), now)]_vars

\* C34: a toggle leaves time, baseTime and startTime of every sibling of the
\* toggled record that is already stopped as they were.
C34_StoppedSiblingsKept ==
    Toggled =>
        \A p \in Targets : \A q \in AllPaths :
            (Siblings(p, q) /\ ~Pre(q).isRunning) =>
                /\ Post(q).time = Pre(q).time
                /\ Post(q).baseTime = Pre(q).baseTime
                /\ Post(q).startTime = Pre(q).startTime

\* C35: an ancestor that stops because the toggled descendant was stopped at time
\* now is credited like any stop: baseTime grows by floor((now - startTime)/1000),
\* time = baseTime and startTime is cleared, whether or not a display tick ran.
C35_AncestorStopCredited ==
    Toggled =>
        \A p \in Stopped : \A a \in AllPaths :
            (StrictAncestor(a, p) /\ Pre(a).isRunning /\ ~Post(a).isRunning)
                => CreditedStop(a)

\* the children of every record of the trees name that record as their parent
ParentLinks(records) ==
    \A p \in Paths(records) :
        Len(p) > 1 => NodeAt(records, p).parentId = NodeAt(records, Parent(p)).id

\* C32: every child carries the id of the record that holds it as parentId, on the
\* recorder screen and in the stored trees, after any sequence of add, toggle, edit
\* and collapse commands.
C32_ParentLinks ==
    /\ ParentLinks(timeRecords)
    /\ ParentLinks(getAllRecords(storage))

C32_Witness ==
    /\ last.op = "break"
    /\ \E p \in Paths(timeRecords) :
        /\ Len(p) = 3
        /\ Post(p).label = "Break" /\ Post(p).parentId = Post(Parent(p)).id
        /\ Post(Parent(p)).label \in TypedLabels
        /\ Post(Parent(p)).parentId = Post(<<1>>).id
        /\ Post(Parent(p)).isRunning
    /\ ParentLinks(getAllRecords(storage))
    /\ CountRecords(getAllRecords(storage)) = MaxEditNodes

\* C38: after a child is added under a record and the command's save is done, the
\* repository returns the child for its own id, and lists it among the child
\* records of its parent.
C38_ChildRetrievable ==
    last.op \in {"add", "break"} =>
        /\ getRecord(storage, ToString(last.at)) # <<>>
        /\ \E i \in DOMAIN getChildRecords(storage, last.id) :
              getChildRecords(storage, last.id)[i].id = ToString(last.at)

\* C39: at most one root record of the store is running, after any sequence of
\* toggles made on recorder screens opened on different root records.
C39_OneRunningRoot ==
    Cardinality({i \in DOMAIN getRootRecords(storage) :
                    getRootRecords(storage)[i].isRunning}) <= 1

\* no storage call is in flight and the calls of the last burst have completed
Idle == calls = <<>> /\ last.op = "calls"

\* the store lists the record: its id is indexed and loadRecords returns it
Listed(s, id) ==
    /\ Indexed(s, id)
    /\ \E i \in DOMAIN getAllRecords(s) : getAllRecords(s)[i].id = id

\* C36: when a saveRecord(r) begins and completes while an initialize() is still
\* in progress, then once both have completed r.id is in the index and loadRecords
\* returns r.
C36_SaveDuringInitialize ==
    (/\ Idle
     /\ Len(last.began) = 2
     /\ last.began[1].op = "initialize"
     /\ last.began[2].op = "saveRecord"
     /\ last.log = <<2, 1>>) => Listed(storage, last.began[2].id)

\* C37: when two saveRecord calls for two distinct new ids are in flight at the
\* same time, then after both have completed both ids are in the index and
\* loadRecords returns both records.
C37_ConcurrentSaves ==
    (/\ Idle
     /\ Len(last.began) = 2
     /\ last.began[1].op = "saveRecord" /\ last.began[2].op = "saveRecord"
     /\ last.began[1].id # last.began[2].id
     /\ \A k \in 1..2 : ~Stored(last.pre, last.began[k].id)
                        /\ ~Indexed(last.pre, last.began[k].id)
     /\ <<1, 2>> \in last.overlap)
        => Listed(storage, last.began[1].id) /\ Listed(storage, last.began[2].id)

\* a sequence of ids without a repetition
NoRepeat(recordIds) ==
    \A i, j \in DOMAIN recordIds : recordIds[i] = recordIds[j] => i = j

\* C40: the index holds each id at most once, whatever calls of saveRecord,
\* saveRecords, deleteRecord, initialize and clearStorage have run and however
\* their storage operations were interleaved.
C40_IndexNoRepeat == NoRepeat(getRecordIds(storage))

C40_Witness ==
    /\ Idle
    /\ Len(last.began) = MaxBurst
    /\ \E k \in 1..2 :
        /\ last.began[k].op = "saveRecord" /\ last.began[k + 1].op = "saveRecord"
        /\ last.began[k].id = last.began[k + 1].id
        /\ Indexed(last.pre, last.began[k].id)
        /\ <<k, k + 1>> \in last.overlap
    /\ Len(getRecordIds(storage)) = Cardinality(RaceIds)
    /\ Len(getRecordIds(last.pre)) = Cardinality(RaceIds)

====
